---- MODULE Spec2Model ----
(***************************************************************************)
(* ldparser: the top-level script parser (src/src/script.rs) and the       *)
(* expression evaluator (src/src/eval.rs), which share the thread-local    *)
(* accumulator PARSE_STATE.                                                *)
(*                                                                         *)
(* The input text is modelled as a sequence of lexemes (tokens) with the   *)
(* whitespace and comments between them already skipped (wsc!, opt_space). *)
(* The caller's input is fixed token by token, at the moment a recogniser  *)
(* first looks at a position: src is the part of the input looked at so    *)
(* far, and the behaviours are those of fixing the whole input up front.   *)
(* u64 is scaled down to WordBits bits.                                    *)
(***************************************************************************)
EXTENDS Integers, Sequences, FiniteSets, TLC

VARIABLES
    items,      \* PARSE_STATE.items, the thread-local accumulator
    src,        \* the tokens of the current parse call's input looked at so far
    pos,        \* parse's `input`: offset (in tokens) of the unconsumed remainder
    mpos,       \* the block recogniser's own `input` while a block is open
    pc,         \* "idle" | "dispatch" | "memory" | "sections" | "evaluated"
    blk,        \* outcome of the block recogniser last entered by this call
    entryDirty, \* history: the accumulator was non-empty when this call was made
    ret,        \* what the last finished parse call returned
    evalRet,    \* the evaluate_expression call in progress and its result
    other       \* a second thread while it is not running: its own PARSE_STATE
                \* and the locals of its calls

vars == <<items, src, pos, mpos, pc, blk, entryDirty, ret, evalRet, other>>

\* ------------------------------------------------------------------ bounds

WordBits == 7
MaxLen == 4
MaxItems == 3

Modulus == 2 ^ WordBits

\* ------------------------------------------------------------- expressions

Num(n) == [k |-> "Number", n |-> n]
Id(s) == [k |-> "Ident", s |-> s]
CallE(f, args) == [k |-> "Call", function |-> f, arguments |-> args]
Bin(l, op, r) == [k |-> "BinaryOp", left |-> l, operator |-> op, right |-> r]
\* any other node kind of Expression (a unary or ternary operation, ...)
OtherExpr == [k |-> "Other"]

\* ---------------------------------------------------------------- root items

Assign(name, e) ==
    [type |-> "Statement",
     stmt |-> [kind |-> "Assign", name |-> name, expression |-> e]]
\* a statement that is not an assignment (PROVIDE(name = e), ...)
Provide(name, e) ==
    [type |-> "Statement",
     stmt |-> [kind |-> "Provide", name |-> name, expression |-> e]]
CommandItem == [type |-> "Command"]
Region(name, origin, length) ==
    [name |-> name, origin |-> origin, length |-> length]
Memory(regions) == [type |-> "Memory", regions |-> regions]
Sections(list) == [type |-> "Sections", list |-> list]

\* ------------------------------------------------------------ the evaluator

Ok(v) == [kind |-> "Ok", v |-> v]
Err(what, name) == [kind |-> "Err", msg |-> <<what, name>>]
\* the call does not return: the thread panics
Panic == [kind |-> "Panic"]
\* the call does not return: the recursion never ends and the stack is exhausted
StackOverflow == [kind |-> "StackOverflow"]

\* an addition that saturates instead of wrapping
saturating_add(l, r) == IF l + r >= Modulus THEN Modulus - 1 ELSE l + r

wrapping_add(l, r) == (l + r) % Modulus
wrapping_sub(l, r) == (l + Modulus - r) % Modulus
wrapping_mul(l, r) == (l * r) % Modulus
\* u64::wrapping_div panics when the divisor is zero
wrapping_div(l, r) == IF r = 0 THEN Panic ELSE Ok(l \div r)

IsAssignOf(item, s) ==
    /\ item.type = "Statement"
    /\ item.stmt.kind = "Assign"
    /\ item.stmt.name = s

\* the last index of its, from `from` on, that holds an assignment to s; 0 if none
RECURSIVE FindAssignLast(_, _, _)
FindAssignLast(its, s, from) ==
    IF from > Len(its) THEN 0
    ELSE IF FindAssignLast(its, s, from + 1) # 0
    THEN FindAssignLast(its, s, from + 1)
    ELSE IF IsAssignOf(its[from], s) THEN from
    ELSE 0

\* the first index of its, from `from` on, that holds an assignment to s; 0 if none
RECURSIVE FindAssign(_, _, _)
FindAssign(its, s, from) ==
    IF from > Len(its) THEN 0
    ELSE IF IsAssignOf(its[from], s) THEN from
    ELSE FindAssign(its, s, from + 1)

\* the last index of regions, from `from` on, whose region is named s; 0 if none
RECURSIVE FindRegionLast(_, _, _)
FindRegionLast(regions, s, from) ==
    IF from > Len(regions) THEN 0
    ELSE IF FindRegionLast(regions, s, from + 1) # 0
    THEN FindRegionLast(regions, s, from + 1)
    ELSE IF regions[from].name = s THEN from
    ELSE 0

\* the first index of regions, from `from` on, whose region is named s; 0 if none
RECURSIVE FindRegion(_, _, _)
FindRegion(regions, s, from) ==
    IF from > Len(regions) THEN 0
    ELSE IF regions[from].name = s THEN from
    ELSE FindRegion(regions, s, from + 1)

\* the scan of the Memory items for a region named s
RECURSIVE LookupRegion(_, _, _, _)
LookupRegion(its, function, s, from) ==
    IF from > Len(its) THEN Err("Variable not found", s)
    ELSE IF its[from].type = "Memory" /\ FindRegion(its[from].regions, s, 1) # 0
    THEN LET region == its[from].regions[FindRegion(its[from].regions, s, 1)]
         IN  IF function = "ORIGIN" THEN Ok(region.origin) ELSE Ok(region.length)
    ELSE LookupRegion(its, function, s, from + 1)

BinaryOpApply(operator, l, r) ==
    CASE operator = "Plus" -> Ok(wrapping_add(l, r))
      [] operator = "Minus" -> Ok(wrapping_sub(l, r))
      [] operator = "Multiply" -> Ok(wrapping_mul(l, r))
      [] operator = "Divide" -> wrapping_div(l, r)
      [] OTHER -> Err("Binary operator not supported", operator)

\* the Call arm without the check of the number of arguments
EvalCallAnyArity(its, function, arguments) ==
    IF function \in {"ORIGIN", "LENGTH"}
    THEN IF Len(arguments) = 0
         THEN Err("function only support 1 argument", function)
         ELSE IF arguments[1].k = "Ident"
         THEN LookupRegion(its, function, arguments[1].s, 1)
         ELSE Err("function argument must be string", function)
    ELSE Err("function not supported", function)

EvalCall(its, function, arguments) ==
    IF function \in {"ORIGIN", "LENGTH"}
    THEN IF Len(arguments) # 1
         THEN Err("function only support 1 argument", function)
         ELSE IF arguments[1].k = "Ident"
         THEN LookupRegion(its, function, arguments[1].s, 1)
         ELSE Err("function argument must be string", function)
    ELSE Err("function not supported", function)

\* the operands of a BinaryOp with the right one looked at first
BinaryOpOperandsRightFirst(l, r, operator) ==
    IF r.kind # "Ok" THEN r
    ELSE IF l.kind # "Ok" THEN l
    ELSE BinaryOpApply(operator, l.v, r.v)

\* the BinaryOp arm over the outcomes l and r of its operands: the left `?`
\* returns before the right operand is evaluated, the right `?` before the
\* operator is applied
BinaryOpOperands(l, r, operator) ==
    IF l.kind # "Ok" THEN l
    ELSE IF r.kind # "Ok" THEN r
    ELSE BinaryOpApply(operator, l.v, r.v)

\* _evaluate_expression against the accumulator its; active holds the names
\* whose assignment is being evaluated further up the recursion: meeting one of
\* them again repeats the same computation and never returns.
RECURSIVE EvalRec(_, _, _)
EvalRec(expr, its, active) ==
    CASE expr.k = "Number" -> Ok(expr.n)
      [] expr.k = "Ident" ->
            LET i == FindAssign(its, expr.s, 1)
            IN  IF i = 0 THEN Err("Variable not found", expr.s)
                ELSE IF expr.s \in active THEN StackOverflow
                ELSE EvalRec(its[i].stmt.expression, its, active \cup {expr.s})
      [] expr.k = "Call" -> EvalCall(its, expr.function, expr.arguments)
      [] expr.k = "BinaryOp" ->
            BinaryOpOperands(EvalRec(expr.left, its, active),
                             EvalRec(expr.right, its, active), expr.operator)
      [] OTHER -> Err("Expression not supported", expr.k)

evaluate_expression(expr, its) == EvalRec(expr, its, {})

\* ------------------------------------------------------------------ tokens

TAssign(name, e) == [t |-> "assign", name |-> name, expression |-> e]
TMemOpen == [t |-> "MEMORY{"]
TRegion(name, origin, length) ==
    [t |-> "region", name |-> name, origin |-> origin, length |-> length]
TClose == [t |-> "}"]
TSecOpen == [t |-> "SECTIONS{"]
TSecCmd == [t |-> "section_command"]
TCmd == [t |-> "command"]
\* text of the form NAME(arguments) that the statement recogniser takes as an
\* assertion and that the command recogniser would take as a call
TCall == [t |-> "call"]
\* text that no recogniser matches
TJunk == [t |-> "junk"]
\* malformed text on which the leaf recogniser looking at it fails hard
TBad == [t |-> "malformed"]
TEof == [t |-> "eof"]

TokA == TAssign("A", Num(11))
TokA5 == TAssign("A", Num(5))
TokB == TAssign("B", Bin(Num(2), "Plus", Num(4)))
TokAA == TRegion("AA", Num(66), Num(12))
TokBB ==
    TRegion("BB",
            Bin(CallE("ORIGIN", <<Id("AA")>>), "Plus", CallE("LENGTH", <<Id("AA")>>)),
            Id("A"))
TokZZ == TRegion("ZZ", Bin(Num(1), "Divide", Num(0)), Num(1))

Tokens ==
    {TokA, TokA5, TokB, TMemOpen, TokAA, TokBB, TokZZ, TClose, TSecOpen,
     TSecCmd, TCmd, TCall, TJunk, TBad}

\* --------------------------------------------- the collaborators' recognisers

\* statements::statement
statement(tok) ==
    CASE tok.t = "assign" ->
            [kind |-> "Ok",
             v |-> [kind |-> "Assign", name |-> tok.name,
                    expression |-> tok.expression]]
      [] tok.t = "call" -> [kind |-> "Ok", v |-> [kind |-> "Assert"]]
      [] tok.t = "malformed" -> [kind |-> "Failure"]
      [] OTHER -> [kind |-> "Error"]

\* commands::command
command(tok) ==
    CASE tok.t \in {"command", "call"} -> [kind |-> "Ok"]
      [] tok.t = "malformed" -> [kind |-> "Failure"]
      [] OTHER -> [kind |-> "Error"]

\* sections::section_command
section_command(tok) ==
    CASE tok.t = "section_command" -> [kind |-> "Ok", v |-> "section_command"]
      [] tok.t = "malformed" -> [kind |-> "Failure"]
      [] OTHER -> [kind |-> "Error"]

\* memory::region: origin and length are evaluated against the accumulator as
\* the region is recognised; an evaluation error is a soft no-match.
region(tok, its) ==
    CASE tok.t = "region" ->
            LET o == evaluate_expression(tok.origin, its)
            IN  IF o.kind = "Err" THEN [kind |-> "Error"]
                ELSE IF o.kind # "Ok" THEN [kind |-> o.kind]
                ELSE LET l == evaluate_expression(tok.length, its)
                     IN  IF l.kind = "Err" THEN [kind |-> "Error"]
                         ELSE IF l.kind # "Ok" THEN [kind |-> l.kind]
                         ELSE [kind |-> "Ok", v |-> Region(tok.name, o.v, l.v)]
      [] tok.t = "malformed" -> [kind |-> "Failure"]
      [] OTHER -> [kind |-> "Error"]

\* whitespace::opt_space at offset p: the tokens carry no whitespace, nothing is
\* skipped, and the skipping never fails
opt_space(p) == [kind |-> "Ok", rest |-> p]

\* -------------------------------------------------------- the root recognisers

\* statement_item without its push
statement_item_no_push(tok) == [kind |-> statement(tok).kind, push |-> <<>>]

statement_item(tok) ==
    LET r == statement(tok)
    IN  IF r.kind = "Ok"
        THEN [kind |-> "Ok", push |-> <<[type |-> "Statement", stmt |-> r.v]>>]
        ELSE [kind |-> r.kind]

command_item(tok) ==
    LET r == command(tok)
    IN  IF r.kind = "Ok"
        THEN [kind |-> "Ok", push |-> <<CommandItem>>]
        ELSE [kind |-> r.kind]

\* memory_item entering its loop without having pushed the container
memory_open_no_container(tok) ==
    IF tok.t = "MEMORY{"
    THEN [kind |-> "Open", push |-> <<>>, block |-> "memory"]
    ELSE [kind |-> "Error"]

\* memory_item up to its loop: the keyword, the brace, the empty container
memory_open(tok) ==
    IF tok.t = "MEMORY{"
    THEN [kind |-> "Open", push |-> <<Memory(<<>>)>>, block |-> "memory"]
    ELSE [kind |-> "Error"]

\* sections_item up to its loop
sections_open(tok) ==
    IF tok.t = "SECTIONS{"
    THEN [kind |-> "Open", push |-> <<Sections(<<>>)>>, block |-> "sections"]
    ELSE [kind |-> "Error"]

\* the alternatives with the command recogniser tried first
AlternativeCommandFirst(k, tok) ==
    CASE k = 1 -> command_item(tok)
      [] k = 2 -> statement_item(tok)
      [] k = 3 -> memory_open(tok)
      [] k = 4 -> sections_open(tok)

\* the k-th alternative of root_item's alt
Alternative(k, tok) ==
    CASE k = 1 -> statement_item(tok)
      [] k = 2 -> memory_open(tok)
      [] k = 3 -> sections_open(tok)
      [] k = 4 -> command_item(tok)

\* nom's alt from the k-th alternative on: the first outcome that is not a soft
\* no-match, and a soft no-match when every alternative gave one
RECURSIVE AltFrom(_, _)
AltFrom(k, tok) ==
    IF k > 4 THEN [kind |-> "Error"]
    ELSE IF Alternative(k, tok).kind # "Error" THEN Alternative(k, tok)
    ELSE AltFrom(k + 1, tok)

root_item(tok) == AltFrom(1, tok)

\* the push of a recognised region made through first_mut instead of last_mut
MemoryPushFirst(its, region_item) ==
    IF Len(its) > 0 /\ its[1].type = "Memory"
    THEN [its EXCEPT ![1].regions = Append(@, region_item)]
    ELSE its

\* the push of a recognised region (last_mut: only when the last item is a Memory)
MemoryPush(its, region_item) ==
    IF Len(its) > 0 /\ its[Len(its)].type = "Memory"
    THEN [its EXCEPT ![Len(its)].regions = Append(@, region_item)]
    ELSE its

\* the push of a recognised section command
SectionsPush(its, section_item) ==
    IF Len(its) > 0 /\ its[Len(its)].type = "Sections"
    THEN [its EXCEPT ![Len(its)].list = Append(@, section_item)]
    ELSE its

\* ----------------------------------------------------------------- the state

NoRet == [kind |-> "none"]
NoEval == [kind |-> "none"]

\* a thread that has made no call yet: its PARSE_STATE is the initial value of
\* the thread_local!, `ParseState { items: Vec::new() }`
Fresh ==
    [items |-> <<>>, src |-> <<>>, pos |-> 0, mpos |-> 0, pc |-> "idle",
     blk |-> "none", entryDirty |-> FALSE, ret |-> NoRet, evalRet |-> NoEval]

Init ==
    /\ items = <<>>
    /\ src = <<>>
    /\ pos = 0
    /\ mpos = 0
    /\ pc = "idle"
    /\ blk = "none"
    /\ entryDirty = FALSE
    /\ ret = NoRet
    /\ evalRet = NoEval
    /\ other = Fresh

\* the token at offset p of the input: fixed by an earlier look, or fixed now
Upcoming == IF Len(src) >= MaxLen THEN {TEof} ELSE Tokens \cup {TEof}

Read(p, tok) ==
    IF p < Len(src)
    THEN tok = src[p + 1] /\ src' = src
    ELSE tok \in Upcoming /\ src' = Append(src, tok)

\* clear_state left out of parse
clear_state_skipped == items' = items

clear_state == items' = <<>>

\* parse, lines 101-104
ParseCall ==
    /\ pc = "idle"
    /\ entryDirty' = (items # <<>>)
    /\ clear_state
    /\ src' = <<>>
    /\ pos' = 0
    /\ mpos' = 0
    /\ pc' = "dispatch"
    /\ blk' = "none"
    /\ ret' = NoRet
    /\ UNCHANGED <<evalRet, other>>

\* parse, lines 111-124: the loop ends, the trailing whitespace is skipped, the
\* accumulator is taken and returned with the remainder
ParseBreak ==
    /\ IF opt_space(pos).kind = "Ok"
       THEN /\ ret' = [kind |-> "Ok", rest |-> opt_space(pos).rest, items |-> items]
            /\ items' = <<>>
       ELSE /\ ret' = [kind |-> "Err", at |-> pos]
            /\ items' = items
    /\ pc' = "idle"
    /\ pos' = pos
    /\ mpos' = 0

\* parse, line 115: a hard failure is returned as it is
ParseFail ==
    /\ ret' = [kind |-> "Err", at |-> pos]
    /\ items' = items
    /\ pc' = "idle"
    /\ pos' = pos
    /\ mpos' = 0

\* a panic or a stack exhaustion inside a recogniser leaves parse without a return
ParseAbort(kind) ==
    /\ ret' = [kind |-> kind]
    /\ items' = items
    /\ pc' = "idle"
    /\ pos' = pos
    /\ mpos' = 0

\* parse's loop with every error returned to the caller
ParseLoopArmStrict(kind) ==
    IF kind \in {"Ok", "Open"} THEN "continue" ELSE "return"

\* a block recogniser's loop that ends on every error
BlockLoopArmLenient(kind) ==
    IF kind = "Ok" THEN "append" ELSE "break"

\* the arms of the match in parse's loop, lines 107-116
ParseLoopArm(kind) ==
    CASE kind \in {"Ok", "Open"} -> "continue"
      [] kind \in {"Error", "Incomplete"} -> "break"
      [] OTHER -> "return"

\* the arms of the match in a block recogniser's loop, lines 52-63 and 73-84
BlockLoopArm(kind) ==
    CASE kind = "Ok" -> "append"
      [] kind \in {"Error", "Incomplete"} -> "break"
      [] OTHER -> "return"

\* parse, lines 107-116, on the outcome r of wsc!(root_item) at offset pos; an
\* opened block hands over to the block's loop, the pushes made so far kept
ParseStep(r) ==
    CASE ParseLoopArm(r.kind) = "continue" /\ r.kind = "Ok" ->
            /\ items' = items \o r.push
            /\ pos' = pos + 1
            /\ mpos' = 0
            /\ UNCHANGED <<pc, ret>>
      [] ParseLoopArm(r.kind) = "continue" /\ r.kind = "Open" ->
            /\ items' = items \o r.push
            /\ mpos' = pos + 1
            /\ pc' = r.block
            /\ UNCHANGED <<pos, ret>>
      [] ParseLoopArm(r.kind) = "break" -> ParseBreak
      [] OTHER -> ParseFail

\* one turn of parse's loop at a root position
Dispatch(tok) ==
    /\ pc = "dispatch"
    /\ Read(pos, tok)
    /\ ParseStep(root_item(tok))
    /\ blk' = IF root_item(tok).kind = "Open" THEN "open" ELSE blk
    /\ UNCHANGED <<entryDirty, evalRet, other>>

\* the block recogniser's end: tag("}") on tok; when it does not match, the
\* recogniser's soft no-match sends alt to the alternatives after the k-th, at
\* the block's first token
BlockClose(k, tok) ==
    IF tok.t = "}"
    THEN /\ pos' = mpos + 1
         /\ mpos' = 0
         /\ pc' = "dispatch"
         /\ blk' = "closed"
         /\ UNCHANGED <<items, ret>>
    ELSE /\ blk' = "unclosed"
         /\ ParseStep(AltFrom(k + 1, src[pos + 1]))

\* one turn of memory_item's loop, lines 51-66
MemoryStep(tok) ==
    /\ pc = "memory"
    /\ Read(mpos, tok)
    /\ LET r == region(tok, items)
       IN  CASE r.kind \in {"Panic", "StackOverflow"} ->
                    blk' = "failed" /\ ParseAbort(r.kind)
             [] BlockLoopArm(r.kind) = "append" ->
                    /\ items' = MemoryPush(items, r.v)
                    /\ mpos' = mpos + 1
                    /\ UNCHANGED <<pos, pc, blk, ret>>
             [] BlockLoopArm(r.kind) = "break" -> BlockClose(2, tok)
             [] OTHER -> blk' = "failed" /\ ParseFail
    /\ UNCHANGED <<entryDirty, evalRet, other>>

\* one turn of sections_item's loop, lines 72-87
SectionsStep(tok) ==
    /\ pc = "sections"
    /\ Read(mpos, tok)
    /\ LET r == section_command(tok)
       IN  CASE BlockLoopArm(r.kind) = "append" ->
                    /\ items' = SectionsPush(items, r.v)
                    /\ mpos' = mpos + 1
                    /\ UNCHANGED <<pos, pc, blk, ret>>
             [] BlockLoopArm(r.kind) = "break" -> BlockClose(3, tok)
             [] OTHER -> blk' = "failed" /\ ParseFail
    /\ UNCHANGED <<entryDirty, evalRet, other>>

\* an evaluation that takes the accumulator instead of borrowing it
EvaluateTaking(expr) ==
    /\ pc = "idle"
    /\ evalRet' = [kind |-> "done", expr |-> expr,
                   res |-> evaluate_expression(expr, items)]
    /\ pc' = "evaluated"
    /\ items' = <<>>
    /\ UNCHANGED <<src, pos, mpos, blk, entryDirty, ret, other>>

\* evaluate_expression called by the host between parse calls
Evaluate(expr) ==
    /\ pc = "idle"
    /\ evalRet' = [kind |-> "done", expr |-> expr,
                   res |-> evaluate_expression(expr, items)]
    /\ pc' = "evaluated"
    /\ UNCHANGED <<items, src, pos, mpos, blk, entryDirty, ret, other>>

\* the host takes the result of the evaluation
EvalReturn ==
    /\ pc = "evaluated"
    /\ evalRet' = NoEval
    /\ pc' = "idle"
    /\ UNCHANGED <<items, src, pos, mpos, blk, entryDirty, ret, other>>

\* the expressions the host evaluates between parse calls
HostExprs ==
    {Id("A"), Bin(Id("A"), "Multiply", Num(2)), Bin(Id("A"), "Multiply", Id("B")),
     CallE("ORIGIN", <<Id("AA")>>)}

AllTokens == Tokens \cup {TEof}

Next ==
    \/ ParseCall
    \/ \E tok \in AllTokens : Dispatch(tok)
    \/ \E tok \in AllTokens : MemoryStep(tok)
    \/ \E tok \in AllTokens : SectionsStep(tok)
    \/ \E expr \in HostExprs : Evaluate(expr)
    \/ EvalReturn

Spec == Init /\ [][Next]_vars

\* ------------------------------------- the evaluator over a filled accumulator
\* The crate fills PARSE_STATE directly (as test_parsed_expressions does) and
\* evaluates against it.

ItemPool ==
    {Assign("A", Num(11)), Assign("A", Num(5)),
     Assign("B", Bin(Num(2), "Plus", Num(4))),
     Provide("A", Num(3)),
     Memory(<<Region("AA", 66, 12)>>),
     Memory(<<Region("AA", 3, 4), Region("BB", 1, 2), Region("AA", 5, 6)>>),
     Assign("D", Bin(Id("D"), "Plus", Num(1))),
     Assign("E", Id("F")), Assign("F", Id("E"))}

Operands == {Num(0), Num(3), Num(Modulus - 1), Id("A"), Id("C")}

Operators == {"Plus", "Minus", "Multiply", "Divide", "Remainder"}

ExprPool ==
    {Num(42), Id("A"), Id("B"), Id("AA"), OtherExpr,
     Id("D"), Id("E"), Bin(Num(3), "Multiply", Id("F")),
     CallE("ORIGIN", <<Id("AA")>>), CallE("LENGTH", <<Id("AA")>>),
     CallE("ORIGIN", <<Id("BB")>>), CallE("LENGTH", <<Id("BB")>>),
     CallE("ORIGIN", <<Id("A")>>), CallE("LENGTH", <<Num(1)>>),
     CallE("ORIGIN", <<Bin(Id("AA"), "Plus", Num(0))>>),
     CallE("ORIGIN", <<>>), CallE("LENGTH", <<Id("AA"), Id("AA")>>),
     CallE("ALIGN", <<Id("AA")>>),
     CallE("ORIGIN", <<Bin(Num(1), "Divide", Num(0))>>),
     Bin(Id("A"), "Multiply", Id("B")),
     Bin(Num(42), "Minus", Bin(Num(20), "Plus", Num(21))),
     Bin(Bin(Id("A"), "Multiply", Num(2)), "Divide",
         Bin(Num(3), "Minus", Num(3))),
     Bin(Id("C"), "Plus", OtherExpr), Bin(OtherExpr, "Plus", Id("C")),
     Bin(Bin(Num(3), "Minus", Id("C")), "Multiply", CallE("ALIGN", <<Id("AA")>>)),
     Bin(Id("A"), "Plus", Bin(Num(3), "Multiply", CallE("ORIGIN", <<Id("C")>>))),
     Bin(Id("C"), "Plus", Bin(Num(1), "Divide", Num(0))),
     Bin(Bin(Num(1), "Divide", Num(0)), "Plus", Id("C"))}
    \cup {Bin(l, op, r) : l \in Operands, op \in Operators, r \in Operands}

\* a push into PARSE_STATE.items from inside the crate
PushItem(item) ==
    /\ pc = "idle"
    /\ Len(items) < MaxItems
    /\ items' = Append(items, item)
    /\ UNCHANGED <<src, pos, mpos, pc, blk, entryDirty, ret, evalRet, other>>

\* clear_state called on its own
ClearState ==
    /\ pc = "idle"
    /\ clear_state
    /\ UNCHANGED <<src, pos, mpos, pc, blk, entryDirty, ret, evalRet, other>>

EvalNext ==
    \/ \E item \in ItemPool : PushItem(item)
    \/ ClearState
    \/ \E expr \in ExprPool : Evaluate(expr)
    \/ EvalReturn

EvalSpec == Init /\ [][EvalNext]_vars

\* ---------------------------------------------------- two threads of the host
\* PARSE_STATE is declared in thread_local!: each thread has its own, created
\* on the thread's first access. The threads' steps interleave; the thread that
\* runs is the one the variables describe, the other one waits in `other`.

ThreadLen == 3

ThreadTokens == {TokA, TMemOpen, TokAA, TClose, TBad, TEof}

\* the running thread's accumulator and the locals of its calls
Running ==
    [items |-> items, src |-> src, pos |-> pos, mpos |-> mpos, pc |-> pc,
     blk |-> blk, entryDirty |-> entryDirty, ret |-> ret, evalRet |-> evalRet]

\* the other thread runs on, were PARSE_STATE one static shared by the threads
SwitchSharedState ==
    /\ other' = Running
    /\ items' = items
    /\ src' = other.src
    /\ pos' = other.pos
    /\ mpos' = other.mpos
    /\ pc' = other.pc
    /\ blk' = other.blk
    /\ entryDirty' = other.entryDirty
    /\ ret' = other.ret
    /\ evalRet' = other.evalRet

\* the other thread runs on: its locals and its own PARSE_STATE
Switch ==
    /\ other' = Running
    /\ items' = other.items
    /\ src' = other.src
    /\ pos' = other.pos
    /\ mpos' = other.mpos
    /\ pc' = other.pc
    /\ blk' = other.blk
    /\ entryDirty' = other.entryDirty
    /\ ret' = other.ret
    /\ evalRet' = other.evalRet

\* the input of a thread's parse is at most ThreadLen tokens long
InThreadInput(tok) == tok = TEof \/ Len(src) < ThreadLen

ThreadNext ==
    \/ ParseCall
    \/ \E tok \in ThreadTokens : InThreadInput(tok) /\ Dispatch(tok)
    \/ \E tok \in ThreadTokens : InThreadInput(tok) /\ MemoryStep(tok)
    \/ Evaluate(Id("A"))
    \/ EvalReturn
    \/ Switch

ThreadSpec == Init /\ [][ThreadNext]_vars

\* =================================================================== claims

Range(f) == {f[i] : i \in DOMAIN f}

\* the tokens of the current input that lie before offset p
Before(p) == Range(SubSeq(src, 1, p))

InParse == pc \in {"dispatch", "memory", "sections"}

\* the first assignment to A among the tokens before offset p is `A = 11;`
FirstAIs11(p) ==
    \E i \in 1..p :
        /\ src[i] = TokA
        /\ \A j \in 1..(i - 1) : src[j] # TokA5

\* C1: an input whose MEMORY or SECTIONS block is opened and not closed after its
\* inner entries makes parse return an error, never a successful result.
C1_UnclosedBlockIsError == blk = "unclosed" => ret.kind = "Err"

\* item was recognised from the tokens in s
FromInput(item, s) ==
    CASE item.type = "Statement" ->
            IF item.stmt.kind = "Assert" THEN TCall \in s
            ELSE \E tok \in s : /\ tok.t = "assign"
                                /\ item.stmt.name = tok.name
                                /\ item.stmt.expression = tok.expression
      [] item.type = "Command" -> TCmd \in s
      [] item.type = "Memory" ->
            /\ TMemOpen \in s
            /\ \A j \in DOMAIN item.regions :
                   \E tok \in s : tok.t = "region" /\ tok.name = item.regions[j].name
      [] item.type = "Sections" ->
            /\ TSecOpen \in s
            /\ (item.list # <<>> => TSecCmd \in s)

\* C2: whatever the earlier calls and evaluations left behind, the accumulator is
\* empty when a parse starts dispatching, and the list a parse returns holds only
\* items recognised from that call's own input, at most one per token.
C2_FreshAccumulator ==
    /\ (pc = "dispatch" /\ pos = 0) => items = <<>>
    /\ InParse => Len(items) <= Len(src)
    /\ ret.kind = "Ok" =>
          /\ Len(ret.items) <= Len(src)
          /\ \A i \in DOMAIN ret.items : FromInput(ret.items[i], Range(src))

\* a parse that found items left by a hard failure returns items of its own
C2_Witness == ret.kind = "Ok" /\ entryDirty /\ ret.items # <<>>

TimesTwo == Bin(Id("A"), "Multiply", Num(2))
TimesB == Bin(Id("A"), "Multiply", Id("B"))

\* C3 as stated: once a parse has returned the items of a source holding
\* `A = 11;` (its first assignment to A), evaluating `A * 2` gives 22, and with
\* `B = 2 + 4;` also in the source evaluating `A * B` gives 66.
C3_AfterParse ==
    (pc = "evaluated" /\ ret.kind = "Ok" /\ FirstAIs11(ret.rest)) =>
        /\ evalRet.expr = TimesTwo => evalRet.res = Ok(22)
        /\ (evalRet.expr = TimesB /\ TokB \in Before(ret.rest)) =>
              evalRet.res = Ok(66)

\* C3 amended: while the parse that recognised `A = 11;` as its first
\* assignment to A is still running, an evaluation against the accumulator
\* gives 22 for `A * 2`, and 66 for `A * B` once `B = 2 + 4;` is recognised
\* too; after the parse has returned its items the accumulator is drained and
\* a reference to A is not found.
C3_DuringParse ==
    /\ (InParse /\ FirstAIs11(pos)) =>
          /\ evaluate_expression(TimesTwo, items) = Ok(22)
          /\ TokB \in Before(pos) => evaluate_expression(TimesB, items) = Ok(66)
    /\ (pc = "evaluated" /\ ret.kind = "Ok"
            /\ evalRet.expr \in {Id("A"), TimesTwo, TimesB}) =>
          evalRet.res = Err("Variable not found", "A")

\* both assignments are recognised and the parse goes on
C3_Witness == InParse /\ FirstAIs11(pos) /\ TokB \in Before(pos)

\* C4: a region recognised in an open MEMORY block is evaluated against every
\* statement and region recognised before it in the same parse, those of the
\* open block included: BB (origin ORIGIN(AA) + LENGTH(AA), length A) read after
\* `A = 11;` (the first assignment to A) and region AA (66, 12) is appended as
\* (78, 11).
C4_EarlierItemsVisible ==
    [][(pc = "memory" /\ src'[mpos + 1] = TokBB
            /\ FirstAIs11(mpos) /\ TokAA \in Before(mpos)) =>
          /\ pc' = "memory"
          /\ Len(items') = Len(items)
          /\ items'[Len(items)].regions =
                Append(items[Len(items)].regions, Region("BB", 78, 11))]_vars

\* BB resolved AA from the block that is still open, and A from a statement
C4_Witness ==
    /\ pc = "memory"
    /\ items = <<Assign("A", Num(11)),
                 Memory(<<Region("AA", 66, 12), Region("BB", 78, 11)>>)>>

\* the indices of the assignments to s in the accumulator
AssignsTo(s) ==
    {i \in DOMAIN items :
        /\ items[i].type = "Statement"
        /\ items[i].stmt.kind = "Assign"
        /\ items[i].stmt.name = s}

\* C5: Ident(name) evaluates to the value of the expression of the first
\* assignment to name in accumulator order, later assignments to the same name
\* notwithstanding, and to a 'variable not found' error when there is none.
C5_FirstAssignment ==
    (pc = "evaluated" /\ evalRet.expr.k = "Ident") =>
        LET s == evalRet.expr.s
        IN  IF AssignsTo(s) = {}
            THEN evalRet.res = Err("Variable not found", s)
            ELSE \E i \in AssignsTo(s) :
                    /\ \A j \in AssignsTo(s) : i <= j
                    /\ evalRet.res =
                          evaluate_expression(items[i].stmt.expression, items)

\* A is assigned 5, then 11, and evaluates to 5
C5_Witness ==
    /\ pc = "evaluated"
    /\ evalRet.expr = Id("A")
    /\ Len(items) >= 2
    /\ items[1] = Assign("A", Num(5))
    /\ items[2] = Assign("A", Num(11))
    /\ evalRet.res = Ok(5)

\* the places <<item, region>> of the regions named s in the accumulator
RegionsNamed(s) ==
    UNION {{<<i, j>> : j \in {n \in DOMAIN items[i].regions :
                                  items[i].regions[n].name = s}} :
           i \in {m \in DOMAIN items : items[m].type = "Memory"}}

IsRegionQuery(expr) ==
    /\ expr.k = "Call"
    /\ expr.function \in {"ORIGIN", "LENGTH"}
    /\ Len(expr.arguments) = 1
    /\ expr.arguments[1].k = "Ident"

\* C6: ORIGIN(R) / LENGTH(R) with R a bare identifier evaluates to the origin /
\* length of the first region named R, the Memory items taken in accumulator
\* order and the regions of an item in their order, and to an error when no
\* region is named R, an assignment to R notwithstanding.
C6_FirstRegion ==
    (pc = "evaluated" /\ IsRegionQuery(evalRet.expr)) =>
        LET s == evalRet.expr.arguments[1].s
        IN  IF RegionsNamed(s) = {}
            THEN evalRet.res.kind = "Err"
            ELSE \E h \in RegionsNamed(s) :
                    /\ \A g \in RegionsNamed(s) :
                          h[1] < g[1] \/ (h[1] = g[1] /\ h[2] <= g[2])
                    /\ evalRet.res =
                          IF evalRet.expr.function = "ORIGIN"
                          THEN Ok(items[h[1]].regions[h[2]].origin)
                          ELSE Ok(items[h[1]].regions[h[2]].length)

\* AA is declared in two Memory items, twice in the first, and LENGTH(AA) is
\* the length of the first declaration
C6_Witness ==
    /\ pc = "evaluated"
    /\ evalRet.expr = CallE("LENGTH", <<Id("AA")>>)
    /\ Len(items) >= 2
    /\ items[1] =
          Memory(<<Region("AA", 3, 4), Region("BB", 1, 2), Region("AA", 5, 6)>>)
    /\ items[2] = Memory(<<Region("AA", 66, 12)>>)
    /\ evalRet.res = Ok(4)

\* the value in 0 .. Modulus - 1 congruent to n modulo 2^WordBits, for n >= -Modulus
Wrapped(n) == IF n < 0 THEN n + Modulus ELSE n - Modulus * (n \div Modulus)

\* the evaluation in progress is a BinaryOp whose operands both evaluate to values
BothOperandsOk ==
    /\ pc = "evaluated"
    /\ evalRet.expr.k = "BinaryOp"
    /\ evaluate_expression(evalRet.expr.left, items).kind = "Ok"
    /\ evaluate_expression(evalRet.expr.right, items).kind = "Ok"

\* C7: a BinaryOp with + - or * over operand values l and r evaluates to
\* (l op r) modulo 2^WordBits, never to an error, and with / and r # 0 to the
\* integer quotient of l by r.
C7_WrappingArithmetic ==
    BothOperandsOk =>
        LET l == evaluate_expression(evalRet.expr.left, items).v
            r == evaluate_expression(evalRet.expr.right, items).v
            op == evalRet.expr.operator
        IN  /\ op = "Plus" => evalRet.res = Ok(Wrapped(l + r))
            /\ op = "Minus" => evalRet.res = Ok(Wrapped(l - r))
            /\ op = "Multiply" => evalRet.res = Ok(Wrapped(l * r))
            /\ (op = "Divide" /\ r # 0) =>
                  /\ evalRet.res.kind = "Ok"
                  /\ evalRet.res.v * r <= l
                  /\ l < (evalRet.res.v + 1) * r

\* an addition that overflows, a subtraction that underflows
C7_Witness ==
    /\ pc = "evaluated"
    /\ \/ /\ evalRet.expr = Bin(Num(Modulus - 1), "Plus", Num(3))
          /\ evalRet.res = Ok(2)
       \/ /\ evalRet.expr = Bin(Num(0), "Minus", Num(3))
          /\ evalRet.res = Ok(Modulus - 3)

\* C8: a division whose right operand evaluates to 0 ends in a value or in an
\* evaluation error, never in a panic.
C8_DivisionByZeroDefined ==
    (/\ BothOperandsOk
     /\ evalRet.expr.operator = "Divide"
     /\ evaluate_expression(evalRet.expr.right, items).v = 0) =>
        evalRet.res.kind \in {"Ok", "Err"}

\* the outcome of the inner-entry recogniser of the open block on tok
InnerEntry(tok) ==
    IF pc = "memory" THEN region(tok, items) ELSE section_command(tok)

\* a step of a block's loop keeps the hard and the soft outcome of tok apart
HardVsSoftStep(tok) ==
    /\ InnerEntry(tok).kind = "Failure" =>
          /\ pc' = "idle"
          /\ ret'.kind = "Err"
    /\ (InnerEntry(tok).kind = "Error" /\ tok = TClose) =>
          /\ pc' = "dispatch"
          /\ blk' = "closed"
          /\ pos' = mpos + 1
          /\ items' = items
          /\ ret' = ret
    /\ (InnerEntry(tok).kind = "Error" /\ tok # TClose) =>
          /\ blk' = "unclosed"
          /\ ret'.kind # "Err"

\* C9: in a MEMORY or SECTIONS block a hard failure of the inner-entry
\* recogniser makes parse return that error and no item list; a soft no-match
\* only ends the entry loop with the entries kept: on a closing brace the block
\* is closed and parse goes on behind it, on anything else the brace is missed,
\* and no hard error is reported.
C9_HardVsSoft ==
    [][(pc \in {"memory", "sections"}) => HardVsSoftStep(src'[mpos + 1])]_vars

\* a block whose entry failed hard after an entry was appended, in a parse that
\* returned the error
C9_Witness ==
    /\ blk = "failed"
    /\ ret.kind = "Err"
    /\ items # <<>>
    /\ items[Len(items)] \in {Memory(<<Region("AA", 66, 12)>>),
                              Sections(<<"section_command">>)}

\* the dispatcher reports a soft no-match in this step: at a root position no
\* alternative matches tok, or the open block misses its closing brace at tok
\* and no later alternative matches the block's first token
SoftNoMatch(tok) ==
    \/ pc = "dispatch" /\ root_item(tok).kind = "Error"
    \/ /\ pc \in {"memory", "sections"}
       /\ InnerEntry(tok).kind = "Error"
       /\ tok # TClose
       /\ AltFrom(IF pc = "memory" THEN 3 ELSE 4, src[pos + 1]).kind = "Error"

\* C10: when the dispatcher reports a soft no-match, parse ends its loop and
\* returns success with the items recognised so far and the remainder of the
\* input from the position of that dispatch on, not an error.
C10_SoftNoMatchEndsParse ==
    [][(InParse /\ SoftNoMatch(src'[(IF pc = "dispatch" THEN pos ELSE mpos) + 1])) =>
          (pc' = "idle" /\ ret' = [kind |-> "Ok", rest |-> pos, items |-> items])]_vars

\* a parse stopped by trailing text that matches nothing, after two items
C10_Witness ==
    /\ ret.kind = "Ok"
    /\ Len(ret.items) = 2
    /\ ret.rest = 2
    /\ src[3] = TJunk

\* C11: a parse whose first dispatch finds no root item at the first position,
\* the source being empty, blank or comments only (its first token is the end
\* of input) or starting with text that opens no alternative, returns success
\* with an empty item list and nothing consumed, whatever the accumulator held
\* when the call started.
C11_NothingRecognised ==
    (ret.kind # "none" /\ root_item(src[1]).kind = "Error") =>
        ret = [kind |-> "Ok", rest |-> 0, items |-> <<>>]

\* an empty source parsed while the accumulator still held the items of a
\* parse that failed hard
C11_Witness ==
    /\ src = <<TEof>>
    /\ entryDirty
    /\ ret = [kind |-> "Ok", rest |-> 0, items |-> <<>>]

\* C12: when a parse call has completed, with success, with a hard failure of
\* the dispatcher or with a failure of the trailing blank skip, the accumulator
\* is empty.
C12_DrainedOnCompletion ==
    (pc \in {"idle", "evaluated"} /\ ret.kind # "none") => items = <<>>

\* the item a root_item call that recognises tok pushes: the statement when the
\* statement recogniser matches, else the empty container of the block tok
\* opens, else the command
RootItemOf(tok) ==
    IF statement(tok).kind = "Ok"
    THEN [type |-> "Statement", stmt |-> statement(tok).v]
    ELSE IF tok = TMemOpen THEN Memory(<<>>)
    ELSE IF tok = TSecOpen THEN Sections(<<>>)
    ELSE CommandItem

\* some recogniser matches tok and none before it fails hard
Recognised(tok) ==
    \/ statement(tok).kind = "Ok"
    \/ /\ statement(tok).kind = "Error"
       /\ tok \in {TMemOpen, TSecOpen} \/ command(tok).kind = "Ok"

\* a step of a root_item call on tok adds one item at the dispatch, and none
\* while the block it opened is filled and closed
OneItemStep(tok) ==
    /\ (pc = "dispatch" /\ Recognised(tok)) =>
          items' = Append(items, RootItemOf(tok))
    /\ (pc \in {"memory", "sections"} /\ InParse') =>
          /\ Len(items') = Len(items)
          /\ SubSeq(items', 1, Len(items) - 1) = SubSeq(items, 1, Len(items) - 1)
          /\ items'[Len(items)].type = items[Len(items)].type

\* C13: every root_item call that succeeds adds exactly one top-level item to
\* the accumulator. The recognisers are tried in the order statement, MEMORY
\* block, SECTIONS block, command, so text that the statement and the command
\* recogniser both match becomes a Statement. For a block the one item is the
\* container, pushed empty before any entry; the entries go into it and the
\* closing brace adds nothing.
C13_ExactlyOneItem ==
    [][InParse => OneItemStep(src'[(IF pc = "dispatch" THEN pos ELSE mpos) + 1])]_vars

\* a call-like text recognised as a statement, then a closed block with an
\* entry: two calls, two items
C13_Witness ==
    /\ pc = "dispatch"
    /\ blk = "closed"
    /\ items = <<[type |-> "Statement", stmt |-> [kind |-> "Assert"]],
                 Memory(<<Region("AA", 66, 12)>>)>>

\* the tokens of the entries recognised so far in the open block
EntryTokens == SubSeq(src, pos + 2, mpos)

\* C14: while a block is open the last item of the accumulator is the container
\* that block pushed, and its children are the entries recognised in the block
\* so far, every one of them, in the order of recognition.
C14_ChildrenInOpenContainer ==
    /\ pc = "memory" =>
          /\ Len(items) > 0
          /\ items[Len(items)].type = "Memory"
          /\ Len(items[Len(items)].regions) = Len(EntryTokens)
          /\ \A j \in DOMAIN EntryTokens :
                /\ EntryTokens[j].t = "region"
                /\ items[Len(items)].regions[j].name = EntryTokens[j].name
    /\ pc = "sections" =>
          /\ Len(items) > 0
          /\ items[Len(items)].type = "Sections"
          /\ Len(items[Len(items)].list) = Len(EntryTokens)
          /\ \A j \in DOMAIN EntryTokens :
                /\ EntryTokens[j] = TSecCmd
                /\ items[Len(items)].list[j] = section_command(TSecCmd).v

\* an open MEMORY block behind a command, with the two regions recognised in
\* it so far, the second under the name of the first
C14_Witness ==
    /\ pc = "memory"
    /\ items = <<CommandItem,
                 Memory(<<Region("AA", 66, 12), Region("AA", 66, 12)>>)>>

\* a step in which an evaluation is made or its result is taken
EvaluationStep == evalRet' # evalRet

\* the accumulator is as it was, and the same evaluation made again gives the
\* same result
AccumulatorKept ==
    /\ items' = items
    /\ pc' = "evaluated" =>
          evalRet'.res = evaluate_expression(evalRet'.expr, items')

\* C15: an evaluate call, whether it ends in a value, an error or a panic,
\* leaves the accumulator as it found it, so that the evaluations after it
\* resolve against the same items.
C15_EvaluateKeepsAccumulator == [][EvaluationStep => AccumulatorKept]_vars

\* a failed evaluation over a filled accumulator
C15_Witness ==
    /\ pc = "evaluated"
    /\ evalRet.res.kind = "Err"
    /\ Len(items) >= 2

\* C16: a BinaryOp whose left operand evaluates to an error evaluates to that
\* error, also when the right operand would fail or panic; one whose left
\* operand has a value and whose right operand evaluates to an error evaluates
\* to the right operand's error; and a BinaryOp has a value only when both
\* operands have one.
C16_NoPartialSuccess ==
    (pc = "evaluated" /\ evalRet.expr.k = "BinaryOp") =>
        LET l == evaluate_expression(evalRet.expr.left, items)
            r == evaluate_expression(evalRet.expr.right, items)
        IN  /\ l.kind = "Err" => evalRet.res = l
            /\ (l.kind = "Ok" /\ r.kind = "Err") => evalRet.res = r
            /\ evalRet.res.kind = "Ok" => (l.kind = "Ok" /\ r.kind = "Ok")

\* both operands fail, each with its own error, and the error is the left one's
C16_Witness ==
    /\ pc = "evaluated"
    /\ evalRet.expr = Bin(Id("C"), "Plus", OtherExpr)
    /\ evaluate_expression(OtherExpr, items).kind = "Err"
    /\ evalRet.res = Err("Variable not found", "C")

\* C17: a Call evaluates to an error, never to a value, when its function is
\* neither ORIGIN nor LENGTH, when it has not exactly one argument, or when its
\* one argument is not a bare identifier; the argument is not evaluated, so an
\* argument that would panic or that names an assigned variable changes nothing.
C17_CallErrors ==
    (pc = "evaluated" /\ evalRet.expr.k = "Call" /\ ~IsRegionQuery(evalRet.expr)) =>
        evalRet.res.kind = "Err"

\* LENGTH with two arguments, each naming a declared region
C17_Witness ==
    /\ pc = "evaluated"
    /\ evalRet.expr = CallE("LENGTH", <<Id("AA"), Id("AA")>>)
    /\ RegionsNamed("AA") # {}
    /\ evalRet.res.kind = "Err"

\* C20: an evaluate call returns, with a value or with an error, for every
\* expression and every accumulator, one that holds an assignment referring to
\* its own name or two assignments referring to each other included.
C20_EvaluateTerminates ==
    pc = "evaluated" => evalRet.res.kind # "StackOverflow"

\* the accumulator as it was when the root_item call in progress was made: in an
\* open block, the items before the block's container
AtCallStart ==
    IF pc = "dispatch" THEN items ELSE SubSeq(items, 1, Len(items) - 1)

\* C19: a root_item call that ends in a soft no-match leaves the accumulator as
\* it was when the call was made, so the list parse then returns holds the
\* items of the earlier calls only: of a block that was opened and misses its
\* closing brace neither the container nor an entry is left.
C19_SoftNoMatchLeavesNothing ==
    [][(InParse /\ SoftNoMatch(src'[(IF pc = "dispatch" THEN pos ELSE mpos) + 1])) =>
          ret'.items = AtCallStart]_vars

\* what a parse of the tokens s from the i-th on, run by a thread of its own,
\* makes of the accumulator its in position at ("dispatch", "memory" or
\* "sections"): the accumulator and the position reached, or the outcome
RECURSIVE Alone(_, _, _, _)
Alone(s, i, its, at) ==
    IF i > Len(s) THEN [items |-> its, at |-> at]
    ELSE IF at = "dispatch"
    THEN LET r == root_item(s[i])
         IN  CASE r.kind = "Ok" -> Alone(s, i + 1, its \o r.push, "dispatch")
               [] r.kind = "Open" -> Alone(s, i + 1, its \o r.push, r.block)
               [] r.kind = "Error" -> [items |-> its, at |-> "Ok"]
               [] OTHER -> [items |-> its, at |-> "Err"]
    ELSE LET r == IF at = "memory" THEN region(s[i], its)
                  ELSE section_command(s[i])
         IN  CASE r.kind = "Ok" ->
                    Alone(s, i + 1,
                          IF at = "memory" THEN MemoryPush(its, r.v)
                          ELSE SectionsPush(its, r.v), at)
               [] r.kind = "Error" ->
                    IF s[i] = TClose THEN Alone(s, i + 1, its, "dispatch")
                    ELSE [items |-> its, at |-> "Ok"]
               [] OTHER -> [items |-> its, at |-> "Err"]

\* the thread in context c has what it has when it runs alone: in a parse, the
\* accumulator made of its own input so far; after a parse, the list made of
\* its own input, or what a failure left of it; from an evaluation, the result
\* against its own accumulator
AsAlone(c) ==
    LET alone == Alone(c.src, 1, <<>>, "dispatch")
    IN  /\ c.pc \in {"dispatch", "memory", "sections"} =>
              (alone.at = c.pc /\ c.items = alone.items)
        /\ c.ret.kind = "Ok" =>
              (alone.at = "Ok" /\ c.ret.items = alone.items /\ c.items = <<>>)
        /\ c.ret.kind = "Err" => (alone.at = "Err" /\ c.items = alone.items)
        /\ (c.pc \in {"idle", "evaluated"} /\ c.ret.kind = "none") =>
              c.items = <<>>
        /\ c.pc = "evaluated" =>
              c.evalRet.res = evaluate_expression(c.evalRet.expr, c.items)

\* C18: two threads never share an accumulator: however their steps
\* interleave, each thread's parse holds and returns the items it holds and
\* returns when it runs alone, and an evaluation on a thread resolves against
\* that thread's items only.
C18_ThreadsDoNotShare == AsAlone(Running) /\ AsAlone(other)

\* one thread evaluates A and does not find it while the other thread is in a
\* parse that has recognised `A = 11;`, and which then goes on to return it
C18_Witness ==
    /\ pc = "evaluated"
    /\ evalRet = [kind |-> "done", expr |-> Id("A"),
                  res |-> Err("Variable not found", "A")]
    /\ other.pc = "memory"
    /\ other.items = <<Assign("A", Num(11)), Memory(<<>>)>>

====
